---- MODULE Spec2Model ----
(***************************************************************************)
(* Model of List<T> (src/src/list/list.hpp): a doubly linked list whose    *)
(* sentinel node header m_ptrs is embedded in the list object.             *)
(*                                                                         *)
(* Memory is a set of addresses.  The sentinel of list l lives at address  *)
(* -l, heap nodes (ListNode<T>) live at 1..MaxNodes, 0 is the null         *)
(* pointer.  prev/next hold the two pointers of every header, value the    *)
(* payload of a heap node.  A freed node has its fields cleared; touching  *)
(* an address that is neither an allocated node nor the sentinel of a live *)
(* list is undefined behaviour: it sets ub, after which nothing is known   *)
(* about the program and the model stops.  A failed assert() sets          *)
(* asserted: a build without NDEBUG has aborted at that point, and the     *)
(* run goes on as a build with NDEBUG does.                                *)
(*                                                                         *)
(* m_size is std::size_t.  It is kept as the representative of its residue *)
(* class modulo 2^64 that is closest to zero, so -1 stands for 2^64-1 (a   *)
(* decrement of 0); empty() compares with 0 and is exact under this        *)
(* representation.                                                         *)
(***************************************************************************)
EXTENDS Integers, Sequences, FiniteSets

NumLists == 2
MaxNodes == 3
MaxVal   == 2
MaxCalls == 5

NULL == 0
MaxPush == 2

Lists  == 1..NumLists
Nodes  == 1..MaxNodes
Values == 1..MaxVal
Addrs  == {-l : l \in Lists} \cup Nodes

VARIABLES
    prev,        \* ListNodeHeader::prev of every header
    next,        \* ListNodeHeader::next of every header
    value,       \* ListNode::value of every heap node
    allocated,   \* heap nodes that are currently allocated
    m_size,      \* List::m_size of every list object
    alive,       \* list objects whose lifetime has begun and not ended
    asserted,    \* an assert() has failed
    ub,          \* undefined behaviour has happened
    last,        \* name of the last call
    moved,       \* <<l, other>>: l was moved into from other, and only
                 \* inserts, erases, pushes and pops were called since
    calls,       \* calls the run may still make (negative: any number)
    copied       \* <<l, other>>: l was copy-constructed from other, and only
                 \* inserts, erases, pushes and pops were called since

vars == <<prev, next, value, allocated, m_size, alive, asserted, ub, last,
          moved, calls, copied>>

\* The whole memory as one record, so that operations compose as functions.
\* ret is the node of the iterator a call returns (NULL: none), exc tells
\* that the call was left by an exception (std::bad_alloc).
Cur ==
    [prev |-> prev, next |-> next, value |-> value, allocated |-> allocated,
     m_size |-> m_size, alive |-> alive, asserted |-> asserted, ub |-> ub,
     ret |-> NULL, exc |-> FALSE]

Set(st) ==
    /\ prev' = st.prev
    /\ next' = st.next
    /\ value' = st.value
    /\ allocated' = st.allocated
    /\ m_size' = st.m_size
    /\ alive' = st.alive
    /\ asserted' = st.asserted
    /\ ub' = st.ub

\* &end_node(): the address of the sentinel embedded in list l.
end_node(l) == -l

\* head() is m_ptrs.next, tail() is m_ptrs.prev.
head(st, l) == st.next[end_node(l)]

tail(st, l) == st.prev[end_node(l)]

empty(st, l) == st.m_size[l] = 0

\* begin() is iterator{head()}, end() is iterator{&end_node()}.
begin(st, l) == head(st, l)

end(st, l) == end_node(l)

\* An address that may be dereferenced.
Valid(st, a) ==
    \/ a \in st.allocated
    \/ \E l \in st.alive : a = end_node(l)

UB(st) == [st EXCEPT !.ub = TRUE]

\* assert(cond)
assert(st, cond) ==
    IF cond THEN st ELSE [st EXCEPT !.asserted = TRUE]

\* operator delete on a heap node.
Delete(st, n) ==
    IF n \notin st.allocated THEN UB(st)
    ELSE [st EXCEPT !.allocated = @ \ {n},
                    !.prev[n] = NULL, !.next[n] = NULL, !.value[n] = NULL]

\* m_ptrs = {&end_node(), &end_node()}
SelfLink(st, l) ==
    [st EXCEPT !.prev[end_node(l)] = end_node(l),
               !.next[end_node(l)] = end_node(l)]

(***************************************************************************)
(* List::insert(pos, value).  n is the node operator new returns, NULL     *)
(* when it throws std::bad_alloc.                                          *)
(***************************************************************************)
\* A bug: the size is already counted when operator new throws.
BadAllocCounted(st, l) ==
    [st EXCEPT !.exc = TRUE, !.ret = NULL, !.m_size[l] = @ + 1]

\* operator new throws: the new-expression is the first thing insert does.
BadAlloc(st, l) ==
    [st EXCEPT !.exc = TRUE, !.ret = NULL]

\* new ListNode<T>{{.prev=pos.m_node->prev, .next=pos.m_node}, value}
NewNode(st, pos, v, n) ==
    [st EXCEPT !.allocated = @ \cup {n},
               !.prev[n] = st.prev[pos],
               !.next[n] = pos,
               !.value[n] = v]

\* The link from the node before pos to the new node.
LinkPredecessor(st, l, pos, n) ==
    IF pos = end_node(l)
      THEN LET t == tail(st, l) IN
           IF ~Valid(st, t) THEN UB(st)
           ELSE LET u == [st EXCEPT !.next[t] = n]
                IN  [u EXCEPT !.prev[end_node(l)] = n]
    ELSE IF st.prev[pos] # end_node(l)
      THEN LET p == st.prev[pos] IN
           IF ~Valid(st, p) THEN UB(st)
           ELSE [st EXCEPT !.next[p] = n]
    ELSE st

\* A bug: pos keeps pointing back at its old predecessor.
LinkSuccessorForgotten(st, pos, n) == st

\* pos.m_node->prev = new_node
LinkSuccessor(st, pos, n) ==
    [st EXCEPT !.prev[pos] = n]

\* A bug: head() keeps pointing at the old first node.
UpdateHeadForgotten(st, l, pos, n) == st

\* if (pos.m_node == head()) head() = new_node
UpdateHead(st, l, pos, n) ==
    IF pos = head(st, l)
      THEN [st EXCEPT !.next[end_node(l)] = n]
      ELSE st

\* A bug: the size is never adjusted.
CountForgotten(st, l, d) == st

\* ++m_size and --m_size
Count(st, l, d) ==
    [st EXCEPT !.m_size[l] = @ + d]

insert(st, l, pos, v, n) ==
    IF n = NULL THEN BadAlloc(st, l)
    ELSE IF ~Valid(st, pos) THEN UB(st)
    ELSE
      LET s1 == NewNode(st, pos, v, n)
          s2 == LinkPredecessor(s1, l, pos, n)
          s3 == LinkSuccessor(s2, pos, n)
          s4 == UpdateHead(s3, l, pos, n)
      IN  IF s2.ub THEN s2
          ELSE [Count(s4, l, 1) EXCEPT !.ret = n]

(***************************************************************************)
(* List::erase(pos).  `delete pos.m_node` releases the node through a      *)
(* ListNodeHeader<T>*; every build releases the node's storage there.      *)
(***************************************************************************)
\* The first if/else chain: the node before pos, or the head, skips pos.
UnlinkPredecessor(st, l, pos) ==
    LET p == st.prev[pos] IN
    IF p # end_node(l)
      THEN IF ~Valid(st, p) THEN UB(st)
           ELSE [st EXCEPT !.next[p] = st.next[pos]]
    ELSE IF pos = head(st, l)
      THEN [st EXCEPT !.next[end_node(l)] = st.next[pos]]
    ELSE assert(st, FALSE)

\* A bug: the node after pos, or the tail, keeps pointing back at pos.
UnlinkSuccessorForgotten(st, l, pos) == st

\* The second if/else chain: the node after pos, or the tail, skips pos.
UnlinkSuccessor(st, l, pos) ==
    LET nx == st.next[pos] IN
    IF nx # end_node(l)
      THEN IF ~Valid(st, nx) THEN UB(st)
           ELSE [st EXCEPT !.prev[nx] = st.prev[pos]]
    ELSE IF pos = tail(st, l)
      THEN [st EXCEPT !.prev[end_node(l)] = st.prev[pos]]
    ELSE assert(st, FALSE)

erase(st, l, pos) ==
    LET s0 == assert(st, pos # end_node(l)) IN
    IF ~Valid(s0, pos) THEN UB(s0)
    ELSE
      LET after == s0.next[pos]
          s1 == UnlinkPredecessor(s0, l, pos)
          s2 == IF s1.ub THEN s1 ELSE UnlinkSuccessor(s1, l, pos)
          s3 == IF s2.ub THEN s2 ELSE Delete(s2, pos)
      IN  IF s3.ub THEN s3
          ELSE [Count(s3, l, -1) EXCEPT !.ret = after]

\* The node walk shared by clear() and ~List(): delete every node from
\* `node` on until the list's own sentinel is reached.
RECURSIVE DeleteWalk(_, _, _)
DeleteWalk(st, l, node) ==
    IF st.ub \/ node = end_node(l) THEN st
    ELSE IF ~Valid(st, node) THEN UB(st)
    ELSE LET nx == st.next[node]
         IN  DeleteWalk(Delete(st, node), l, nx)

\* List::clear()
clear(st, l) ==
    LET s1 == DeleteWalk(st, l, head(st, l)) IN
    IF s1.ub THEN s1
    ELSE [SelfLink(s1, l) EXCEPT !.m_size[l] = 0, !.ret = NULL]

\* Calls that return no iterator.
Void(st) ==
    IF st.ub THEN st ELSE [st EXCEPT !.ret = NULL]

push_front(st, l, v, n) == Void(insert(st, l, head(st, l), v, n))

push_back(st, l, v, n) == Void(insert(st, l, end_node(l), v, n))

pop_front(st, l) ==
    LET s0 == assert(st, ~empty(st, l)) IN
    IF s0.ub THEN s0 ELSE Void(erase(s0, l, head(s0, l)))

\* erase(--end()): the decrement reads m_ptrs.prev
pop_back(st, l) ==
    LET s0 == assert(st, ~empty(st, l)) IN
    IF s0.ub THEN s0 ELSE Void(erase(s0, l, tail(s0, l)))

(***************************************************************************)
(* Construction, destruction, move and swap.                               *)
(***************************************************************************)
\* List::List()
default_ctor(st, l) ==
    [SelfLink(st, l) EXCEPT !.alive = @ \cup {l}, !.m_size[l] = 0,
                            !.ret = NULL]

\* m_ptrs = other.m_ptrs
CopyPtrs(st, l, other) ==
    [st EXCEPT !.prev[end_node(l)] = st.prev[end_node(other)],
               !.next[end_node(l)] = st.next[end_node(other)]]

\* tail()->next = &end_node()
FixTail(st, l) ==
    LET t == tail(st, l) IN
    IF ~Valid(st, t) THEN UB(st)
    ELSE [st EXCEPT !.next[t] = end_node(l)]

\* other.m_ptrs = {&other.m_ptrs, &other.m_ptrs}; other.m_size = 0
ResetOther(st, other) ==
    IF st.ub THEN st
    ELSE [SelfLink(st, other) EXCEPT !.m_size[other] = 0,
                                     !.ret = NULL]

\* List::List(List&& other)
move_ctor(st, l, other) ==
    LET s0 == [st EXCEPT !.alive = @ \cup {l}]
        s1 == IF empty(s0, other) THEN SelfLink(s0, l)
              ELSE CopyPtrs(s0, l, other)
        s2 == [s1 EXCEPT !.m_size[l] = s1.m_size[other]]
        s3 == IF ~empty(s2, other) THEN FixTail(s2, l) ELSE s2
    IN  ResetOther(s3, other)

\* List::operator=(List&& other)
move_assign(st, l, other) ==
    LET s1 == clear(st, l)
        s2 == IF s1.ub THEN s1
              ELSE IF ~empty(s1, other) THEN FixTail(CopyPtrs(s1, l, other), l)
              ELSE s1
        s3 == IF s2.ub THEN s2
              ELSE [s2 EXCEPT !.m_size[l] = s2.m_size[other]]
    IN  ResetOther(s3, other)

\* The branch of List::swap that repairs one of the two lists.  The source
\* writes `.next=&end_node` in the empty branch; it is read as &end_node().
SwapFix(st, l) ==
    IF st.ub THEN st
    ELSE IF empty(st, l) THEN SelfLink(st, l)
    ELSE FixTail(st, l)

\* List::swap(List& other)
swap(st, l, other) ==
    LET s1 == [st EXCEPT !.prev[end_node(l)] = st.prev[end_node(other)],
                         !.next[end_node(l)] = st.next[end_node(other)],
                         !.prev[end_node(other)] = st.prev[end_node(l)],
                         !.next[end_node(other)] = st.next[end_node(l)],
                         !.m_size[l] = st.m_size[other],
                         !.m_size[other] = st.m_size[l]]
    IN  Void(SwapFix(SwapFix(s1, l), other))

\* List::~List(): the walk, then the end of the object's lifetime.
dtor(st, l) ==
    LET s1 == DeleteWalk(st, l, head(st, l)) IN
    IF s1.ub THEN s1
    ELSE [s1 EXCEPT !.alive = @ \ {l}, !.m_size[l] = 0,
                    !.prev[end_node(l)] = NULL, !.next[end_node(l)] = NULL,
                    !.ret = NULL]

(***************************************************************************)
(* Copying.  `for (const T& value : other) push_back(value)` reads each    *)
(* node of other through a ListNode<T>*, which is undefined behaviour for  *)
(* an address that is no allocated node.  ok is the number of allocations  *)
(* that succeed before operator new throws; operator new hands out the     *)
(* lowest free address here.                                               *)
(***************************************************************************)
NewAddr(st) ==
    IF Nodes \ st.allocated = {} THEN NULL
    ELSE CHOOSE n \in Nodes \ st.allocated :
            \A m \in Nodes \ st.allocated : n <= m

\* The range-for loop shared by the copy constructor and copy assignment;
\* it is the iterator of the loop.
RECURSIVE CopyLoop(_, _, _, _, _)
CopyLoop(st, l, other, it, ok) ==
    IF st.ub \/ st.exc \/ it = end_node(other) THEN st
    ELSE IF it \notin st.allocated THEN UB(st)
    ELSE LET n  == IF ok = 0 THEN NULL ELSE NewAddr(st)
             s1 == push_back(st, l, st.value[it], n)
         IN  IF s1.ub \/ s1.exc THEN s1
             ELSE CopyLoop(s1, l, other, s1.next[it], ok - 1)

\* List::List(const List& other): when push_back throws, the destructor
\* runs, because the delegated-to List() has completed.
copy_ctor(st, l, other, ok) ==
    LET s0 == default_ctor(st, l)
        s1 == CopyLoop(s0, l, other, head(s0, other), ok)
        d  == dtor(s1, l)
    IN  IF s1.ub THEN s1
        ELSE IF s1.exc THEN (IF d.ub THEN d ELSE [d EXCEPT !.exc = TRUE])
        ELSE Void(s1)

\* List::operator=(const List& other)
copy_assign(st, l, other, ok) ==
    LET s1 == clear(st, l) IN
    IF s1.ub THEN s1
    ELSE LET s2 == CopyLoop(s1, l, other, head(s1, other), ok)
         IN  IF s2.exc THEN s2 ELSE Void(s2)

\* List::erase(first, last): `it` is the iterator of the loop.
RECURSIVE EraseLoop(_, _, _, _)
EraseLoop(st, l, it, lst) ==
    IF st.ub THEN st
    ELSE IF it = lst THEN [st EXCEPT !.ret = lst]
    ELSE LET s1 == erase(st, l, it)
         IN  EraseLoop(s1, l, s1.ret, lst)

erase_range(st, l, first, lst) == EraseLoop(st, l, first, lst)

\* push_back(vs[1]); push_back(vs[2]); ... by a caller of the list; operator
\* new returns the lowest free address, or throws when none is left.
RECURSIVE PushBacks(_, _, _)
PushBacks(st, l, vs) ==
    IF vs = <<>> \/ st.ub \/ st.exc THEN st
    ELSE PushBacks(push_back(st, l, Head(vs), NewAddr(st)), l, Tail(vs))

\* The free function swap(a, b)
swap_free(st, a, b) == swap(st, a, b)

(***************************************************************************)
(* operator== and operator!=.  The result is a record: ret the value       *)
(* returned, compared the number of value comparisons made, ub whether the *)
(* call had undefined behaviour (an iterator dereferenced at an address    *)
(* that is no allocated node, or a loop that never ends).                  *)
(***************************************************************************)
RECURSIVE EqLoop(_, _, _, _, _, _)
EqLoop(st, a, a_it, b_it, done, fuel) ==
    IF a_it = end_node(a) THEN [ret |-> TRUE, compared |-> done, ub |-> FALSE]
    ELSE IF fuel = 0 \/ a_it \notin st.allocated \/ b_it \notin st.allocated
      THEN [ret |-> FALSE, compared |-> done, ub |-> TRUE]
    ELSE IF st.value[a_it] # st.value[b_it]
      THEN [ret |-> FALSE, compared |-> done + 1, ub |-> FALSE]
    ELSE EqLoop(st, a, st.next[a_it], st.next[b_it], done + 1, fuel - 1)

operator_eq(st, a, b) ==
    IF st.m_size[a] # st.m_size[b]
      THEN [ret |-> FALSE, compared |-> 0, ub |-> FALSE]
      ELSE EqLoop(st, a, head(st, a), head(st, b), 0, MaxNodes + 1)

operator_ne(st, a, b) ==
    [operator_eq(st, a, b) EXCEPT !.ret = ~@]

(***************************************************************************)
(* rbegin() is reverse_iterator{begin()}, rend() is reverse_iterator{end()}.*)
(* Dereferencing a reverse_iterator reads the node before its base,        *)
(* incrementing it moves the base one node back.  The result of the loop   *)
(* `for (r = rbegin(); r != rend(); ++r) *r` is a record: visited the      *)
(* nodes read, ub whether a read was at an address that is no allocated    *)
(* node (or the loop never ends).                                          *)
(***************************************************************************)
rbegin(st, l) == head(st, l)

rend(st, l) == end_node(l)

RECURSIVE ReverseLoop(_, _, _, _, _)
ReverseLoop(st, l, base, seen, fuel) ==
    IF base = rend(st, l) THEN [visited |-> seen, ub |-> FALSE]
    ELSE IF fuel = 0 \/ ~Valid(st, base) \/ st.prev[base] \notin st.allocated
      THEN [visited |-> seen, ub |-> TRUE]
    ELSE ReverseLoop(st, l, st.prev[base], Append(seen, st.prev[base]),
                     fuel - 1)

reverse_traversal(st, l) ==
    ReverseLoop(st, l, rbegin(st, l), <<>>, MaxNodes + 1)

(***************************************************************************)
(* Traversal as a caller sees it.                                          *)
(***************************************************************************)
\* Nodes visited by `for (it = begin(); it != end(); ++it)`, cut short at
\* the first address that is not an allocated node or after MaxNodes+1 steps.
RECURSIVE WalkFrom(_, _, _, _)
WalkFrom(st, l, a, fuel) ==
    IF fuel = 0 \/ a \notin st.allocated THEN <<>>
    ELSE <<a>> \o WalkFrom(st, l, st.next[a], fuel - 1)

Walk(st, l) == WalkFrom(st, l, head(st, l), MaxNodes + 1)

\* The same walk backward: --end() down to begin().
RECURSIVE WalkBackFrom(_, _, _, _)
WalkBackFrom(st, l, a, fuel) ==
    IF fuel = 0 \/ a \notin st.allocated THEN <<>>
    ELSE <<a>> \o WalkBackFrom(st, l, st.prev[a], fuel - 1)

WalkBack(st, l) == WalkBackFrom(st, l, tail(st, l), MaxNodes + 1)

Last(s) == s[Len(s)]

\* ListIterator::operator--() and ListConstIterator::operator--()
operator_dec(st, it) == st.prev[it]

\* Nodes visited by `it = --end(); for (;;) { visit(*it); if (it == begin())
\* break; --it; }`, cut short like Walk.
RECURSIVE BackwardFrom(_, _, _, _)
BackwardFrom(st, l, it, fuel) ==
    IF fuel = 0 \/ it \notin st.allocated THEN <<>>
    ELSE IF it = head(st, l) THEN <<it>>
    ELSE <<it>> \o BackwardFrom(st, l, operator_dec(st, it), fuel - 1)

Backward(st, l) ==
    BackwardFrom(st, l, operator_dec(st, end_node(l)), MaxNodes + 1)

Reverse(s) == [i \in 1..Len(s) |-> s[Len(s) + 1 - i]]

Range(s) == {s[i] : i \in 1..Len(s)}

\* The forward walk ends at the list's own sentinel.
Closed(st, l) ==
    LET w == Walk(st, l) IN
    IF w = <<>> THEN head(st, l) = end_node(l)
    ELSE Len(w) <= MaxNodes /\ st.next[Last(w)] = end_node(l)

ClosedBack(st, l) ==
    LET w == WalkBack(st, l) IN
    IF w = <<>> THEN tail(st, l) = end_node(l)
    ELSE Len(w) <= MaxNodes /\ st.prev[Last(w)] = end_node(l)

\* The values a forward traversal yields.
Contents(st, l) ==
    LET w == Walk(st, l) IN [i \in 1..Len(w) |-> st.value[w[i]]]

\* The position of address a in the forward walk of l; end() comes after
\* the last node.
RECURSIVE IndexFrom(_, _, _)
IndexFrom(w, a, i) ==
    IF i > Len(w) \/ w[i] = a THEN i ELSE IndexFrom(w, a, i + 1)

IndexOf(st, l, a) == IndexFrom(Walk(st, l), a, 1)

\* Positions a caller can hold: every node of the forward walk, and end().
ElementPositions(l) == Range(Walk(Cur, l))

Positions(l) == ElementPositions(l) \cup {end_node(l)}

FreeNodes == Nodes \ allocated

(***************************************************************************)
(* Initial state: every list object default-constructed (List::List()).    *)
(***************************************************************************)
Constructed ==
    /\ prev = [a \in Addrs |-> IF a < 0 THEN a ELSE NULL]
    /\ next = [a \in Addrs |-> IF a < 0 THEN a ELSE NULL]
    /\ value = [n \in Nodes |-> NULL]
    /\ allocated = {}
    /\ m_size = [l \in Lists |-> 0]
    /\ alive = Lists
    /\ asserted = FALSE
    /\ ub = FALSE
    /\ last = "List"
    /\ moved = <<>>
    /\ copied = <<>>

Init == Constructed /\ calls = MaxCalls

InitOps == Constructed /\ calls = -1

Running(l) == ~ub /\ l \in alive

\* One more call, named `name`.
Call(name) ==
    /\ calls # 0
    /\ calls' = IF calls < 0 THEN calls ELSE calls - 1
    /\ last' = name

\* A call that is neither insert, erase, push nor pop, nor a move or copy
\* construction.
Other(name) == Call(name) /\ moved' = <<>> /\ copied' = <<>>

\* insert, erase, push or pop.
Op(name) == Call(name) /\ UNCHANGED <<moved, copied>>

\* A move into l from other.
Move(name, l, other) ==
    Call(name) /\ moved' = <<l, other>> /\ copied' = <<>>

\* A copy construction of l from other that has completed.
Copy(name, l, other) ==
    Call(name) /\ moved' = <<>> /\ copied' = <<l, other>>

(***************************************************************************)
(* Calls.                                                                  *)
(***************************************************************************)
Insert(l, pos, v, n) ==
    /\ Running(l)
    /\ pos \in Positions(l)
    /\ Set(insert(Cur, l, pos, v, n))
    /\ Op(IF n = NULL THEN "insert throws" ELSE "insert")

Erase(l, pos) ==
    /\ Running(l)
    /\ pos \in ElementPositions(l)
    /\ Set(erase(Cur, l, pos))
    /\ Op("erase")

PushFront(l, v, n) ==
    /\ Running(l)
    /\ Set(push_front(Cur, l, v, n))
    /\ Op(IF n = NULL THEN "push_front throws" ELSE "push_front")

PushBack(l, v, n) ==
    /\ Running(l)
    /\ Set(push_back(Cur, l, v, n))
    /\ Op(IF n = NULL THEN "push_back throws" ELSE "push_back")

PopFront(l) ==
    /\ Running(l)
    /\ ~empty(Cur, l)
    /\ Set(pop_front(Cur, l))
    /\ Op("pop_front")

PopBack(l) ==
    /\ Running(l)
    /\ ~empty(Cur, l)
    /\ Set(pop_back(Cur, l))
    /\ Op("pop_back")

Clear(l) ==
    /\ Running(l)
    /\ Set(clear(Cur, l))
    /\ Other("clear")

\* operator new throws inside insert, push_front or push_back.
InsertThrows(l, pos, v) == Insert(l, pos, v, NULL)

PushFrontThrows(l, v) == PushFront(l, v, NULL)

PushBackThrows(l, v) == PushBack(l, v, NULL)

DefaultCtor(l) ==
    /\ ~ub
    /\ l \notin alive
    /\ Set(default_ctor(Cur, l))
    /\ Other("List")

MoveCtor(l, other) ==
    /\ Running(other)
    /\ l \notin alive
    /\ Set(move_ctor(Cur, l, other))
    /\ Move("move constructor", l, other)

MoveAssign(l, other) ==
    /\ Running(l)
    /\ Running(other)
    /\ Set(move_assign(Cur, l, other))
    /\ Move("move assignment", l, other)

Swap(l, other) ==
    /\ Running(l)
    /\ Running(other)
    /\ Set(swap(Cur, l, other))
    /\ Other("swap")

Dtor(l) ==
    /\ Running(l)
    /\ Set(dtor(Cur, l))
    /\ Other("~List")

\* ok allocations succeed, then operator new throws; ok is MaxNodes in the
\* calls in which it never throws.
CopyCtor(l, other, ok) ==
    /\ Running(other)
    /\ l \notin alive
    /\ LET r == copy_ctor(Cur, l, other, ok)
       IN  /\ ok = MaxNodes \/ r.exc
           /\ Set(r)
           /\ IF r.exc THEN Other("copy constructor throws")
                       ELSE Copy("copy constructor", l, other)

CopyAssign(l, other, ok) ==
    /\ Running(l)
    /\ Running(other)
    /\ LET r == copy_assign(Cur, l, other, ok)
       IN  /\ ok = MaxNodes \/ r.exc
           /\ Set(r)
           /\ Other(IF r.exc THEN "copy assignment throws"
                             ELSE "copy assignment")

\* erase(first, last) with last reachable from first.
EraseRange(l, first, lst) ==
    /\ Running(l)
    /\ first \in Positions(l)
    /\ lst \in Positions(l)
    /\ IndexOf(Cur, l, first) <= IndexOf(Cur, l, lst)
    /\ LET r == erase_range(Cur, l, first, lst) IN Set(r)
    /\ Other("erase range")

\* swap(a, b), the free function.
SwapFree(a, b) ==
    /\ Running(a)
    /\ Running(b)
    /\ Set(swap_free(Cur, a, b))
    /\ Other("swap")

\* a == b and a != b: nothing is written.
Equal(a, b) ==
    /\ Running(a)
    /\ Running(b)
    /\ Set([Cur EXCEPT !.ub = operator_eq(Cur, a, b).ub])
    /\ Other("operator==")

NotEqual(a, b) ==
    /\ Running(a)
    /\ Running(b)
    /\ Set([Cur EXCEPT !.ub = operator_ne(Cur, a, b).ub])
    /\ Other("operator!=")

\* for (r = rbegin(); r != rend(); ++r) *r: nothing is written.
ReverseTraversal(l) ==
    /\ Running(l)
    /\ Set([Cur EXCEPT !.ub = reverse_traversal(Cur, l).ub])
    /\ Other("reverse traversal")

\* The list that SpecOps works on.
TheList == CHOOSE l \in Lists : \A o \in Lists : l <= o

\* insert, erase, push, pop and clear on the lists of L.
Ops(L) ==
    \/ \E l \in L, v \in Values, n \in FreeNodes :
          \E pos \in Positions(l) : Insert(l, pos, v, n)
    \/ \E l \in L : \E pos \in ElementPositions(l) : Erase(l, pos)
    \/ \E l \in L, v \in Values, n \in FreeNodes : PushFront(l, v, n)
    \/ \E l \in L, v \in Values, n \in FreeNodes : PushBack(l, v, n)
    \/ \E l \in L : PopFront(l)
    \/ \E l \in L : PopBack(l)
    \/ \E l \in L : Clear(l)
    \/ \E l \in L, v \in Values :
          \E pos \in Positions(l) : InsertThrows(l, pos, v)
    \/ \E l \in L, v \in Values : PushFrontThrows(l, v)
    \/ \E l \in L, v \in Values : PushBackThrows(l, v)

NextOps == Ops({TheList})

\* One default-constructed list that is only ever inserted into, erased
\* from and cleared, in runs of any length.
SpecOps == InitOps /\ [][NextOps]_vars

Next ==
    \/ Ops(Lists)
    \/ \E l \in Lists : DefaultCtor(l)
    \/ \E l, other \in Lists : MoveCtor(l, other)
    \/ \E l, other \in Lists : MoveAssign(l, other)
    \/ \E l, other \in Lists : Swap(l, other)
    \/ \E l \in Lists : Dtor(l)
    \/ \E l, other \in Lists, ok \in 0..MaxNodes : CopyCtor(l, other, ok)
    \/ \E l, other \in Lists, ok \in 0..MaxNodes : CopyAssign(l, other, ok)
    \/ \E l \in Lists : \E first, lst \in Positions(l) :
          EraseRange(l, first, lst)
    \/ \E a, b \in Lists : SwapFree(a, b)
    \/ \E a, b \in Lists : Equal(a, b)
    \/ \E a, b \in Lists : NotEqual(a, b)
    \/ \E l \in Lists : ReverseTraversal(l)

\* Every public operation on every list, in runs of at most MaxCalls calls.
Spec == Init /\ [][Next]_vars

(***************************************************************************)
(* Properties.                                                             *)
(***************************************************************************)
\* The memory after the step.
New ==
    [prev |-> prev', next |-> next', value |-> value',
     allocated |-> allocated', m_size |-> m_size', alive |-> alive',
     asserted |-> asserted', ub |-> ub', ret |-> NULL, exc |-> FALSE]

\* The headers of the ring of list l: its sentinel and the nodes of its walk.
Ring(st, l) == {end_node(l)} \cup Range(Walk(st, l))

\* H.next.prev == H and H.prev.next == H
LinkedBothWays(st, h) ==
    /\ st.next[h] \in Addrs
    /\ st.prev[h] \in Addrs
    /\ st.prev[st.next[h]] = h
    /\ st.next[st.prev[h]] = h

SelfLinked(st, l) ==
    /\ st.next[end_node(l)] = end_node(l)
    /\ st.prev[end_node(l)] = end_node(l)

InsertAt(s, k, x) ==
    [i \in 1..(Len(s) + 1) |->
        IF i < k THEN s[i] ELSE IF i = k THEN x ELSE s[i - 1]]

RemoveAt(s, k) ==
    [i \in 1..(Len(s) - 1) |-> IF i < k THEN s[i] ELSE s[i + 1]]

\* C1: in lists that are only inserted into, erased from, pushed to and
\* popped from, every header H of a list's ring, the sentinel included, has
\* H.next.prev == H and H.prev.next == H after every operation.
C1_RingLinkedBothWays ==
    \A l \in alive : \A h \in Ring(Cur, l) : LinkedBothWays(Cur, h)

\* An erase has left two linked elements behind in a list.
C1_Witness ==
    /\ last = "erase"
    /\ \E l \in alive : Len(Walk(Cur, l)) = 2 /\ m_size[l] = 2

\* C2: in lists that are only inserted into, erased from, pushed to, popped
\* from and cleared, size() is the number of values present: the elements
\* passed following next from the sentinel back to the sentinel, and also
\* those passed following prev; every live element is in exactly one ring.
C2_SizeCountsRing ==
    /\ \A l \in alive :
          /\ Closed(Cur, l)
          /\ ClosedBack(Cur, l)
          /\ Len(Walk(Cur, l)) = m_size[l]
          /\ Len(WalkBack(Cur, l)) = m_size[l]
          /\ Range(WalkBack(Cur, l)) = Range(Walk(Cur, l))
    /\ allocated = UNION {Range(Walk(Cur, l)) : l \in alive}
    /\ \A l, o \in alive :
          l # o => Range(Walk(Cur, l)) \cap Range(Walk(Cur, o)) = {}

\* A pop has left a list of three elements with two.
C2_Witness ==
    /\ last \in {"pop_front", "pop_back"}
    /\ allocated # {}
    /\ \E l \in alive : m_size[l] = 2 /\ Len(WalkBack(Cur, l)) = 2

\* What insert(pos, v) promises for a list whose forward traversal is a
\* sequence s and whose pos is at index k of it: s[0..k) + [v] + s[k..),
\* carried by one new node, which is the node returned.
InsertPost(l, pos, v, n) ==
    LET k == IndexOf(Cur, l, pos)
        r == insert(Cur, l, pos, v, n).ret
    IN  /\ ~ub'
        /\ n \notin allocated
        /\ allocated' = allocated \cup {n}
        /\ Closed(New, l)
        /\ Walk(New, l) = InsertAt(Walk(Cur, l), k, n)
        /\ Contents(New, l) = InsertAt(Contents(Cur, l), k, v)
        /\ m_size'[l] = m_size[l] + 1
        /\ r = n
        /\ pos = head(Cur, l) => head(New, l) = r
        /\ pos = end_node(l) => Last(Walk(New, l)) = r

\* C3: for every list whose traversal from begin() reaches end() and every
\* position pos of it, insert(pos, v) allocates one Element, places v
\* immediately before pos, increases size() by one and returns the position
\* of the new Element (the new begin() when pos was begin(), the last
\* Element when pos was end()).
C3_InsertBeforePos ==
    [][\A l \in Lists, v \in Values, n \in Nodes : \A pos \in Positions(l) :
          (Closed(Cur, l) /\ Insert(l, pos, v, n)) => InsertPost(l, pos, v, n)]_vars

\* What erase(pos) promises for a list whose forward traversal is a sequence
\* s and whose pos is at index k of it: s without s[k], the node of pos
\* released, and the position after pos returned.
ErasePost(l, pos) ==
    LET w == Walk(Cur, l)
        k == IndexOf(Cur, l, pos)
        r == erase(Cur, l, pos).ret
    IN  /\ ~ub'
        /\ allocated' = allocated \ {pos}
        /\ Closed(New, l)
        /\ Walk(New, l) = RemoveAt(w, k)
        /\ Contents(New, l) = RemoveAt(Contents(Cur, l), k)
        /\ m_size'[l] = m_size[l] - 1
        /\ r = IF k < Len(w) THEN w[k + 1] ELSE end_node(l)

\* C4: for every list whose traversal from begin() reaches end() and every
\* position pos of it other than end(), erase(pos) removes exactly the
\* Element at pos, keeps the other values in order, decreases size() by one
\* and returns the position that followed pos (end() after the last one).
C4_EraseRemovesPos ==
    [][\A l \in Lists : \A pos \in ElementPositions(l) :
          (Closed(Cur, l) /\ Erase(l, pos)) => ErasePost(l, pos)]_vars

MemoryUnchanged ==
    UNCHANGED <<prev, next, value, allocated, m_size, alive, asserted, ub>>

\* C5: when operator new fails in insert, push_front or push_back, the call
\* is left by the exception and the memory is as it was before the call:
\* every link, value and size.
C5_BadAllocChangesNothing ==
    [][(last' \in {"insert throws", "push_front throws", "push_back throws"}) =>
       \A l \in Lists, v \in Values :
          /\ \A pos \in Positions(l) :
                Insert(l, pos, v, NULL) =>
                    insert(Cur, l, pos, v, NULL).exc /\ MemoryUnchanged
          /\ PushFront(l, v, NULL) =>
                push_front(Cur, l, v, NULL).exc /\ MemoryUnchanged
          /\ PushBack(l, v, NULL) =>
                push_back(Cur, l, v, NULL).exc /\ MemoryUnchanged]_vars

\* operator new has failed in an insert into a list that holds two elements.
C5_Witness ==
    /\ last = "insert throws"
    /\ \E l \in alive : m_size[l] = 2 /\ Len(Walk(Cur, l)) = 2

\* What a move into l from other promises; released are the nodes that l
\* held before.
MovePost(l, other, released) ==
    /\ ~ub'
    /\ m_size'[other] = 0
    /\ head(New, other) = end_node(other)
    /\ Closed(New, l)
    /\ Walk(New, l) = Walk(Cur, other)
    /\ Contents(New, l) = Contents(Cur, other)
    /\ m_size'[l] = Len(Walk(Cur, other))
    /\ allocated' = allocated \ released

\* C6: for two distinct lists, the source being one whose traversal from
\* begin() reaches end(), moving leaves the source empty (size() == 0,
\* begin() == end()) and the destination holding the source's values in
\* order in the source's nodes; no node is allocated, and move assignment
\* releases exactly the nodes the destination held.
C6_MoveTransfersNodes ==
    [][\A l, other \in Lists :
          (l # other /\ Closed(Cur, other)) =>
              /\ MoveCtor(l, other) => MovePost(l, other, {})
              /\ MoveAssign(l, other) =>
                    MovePost(l, other, Range(Walk(Cur, l)))]_vars

\* Both boundary links of the ring of l point at the sentinel of l.
BoundaryOwn(st, l) ==
    /\ head(st, l) \in st.allocated
    /\ tail(st, l) \in st.allocated
    /\ st.prev[head(st, l)] = end_node(l)
    /\ st.next[tail(st, l)] = end_node(l)

\* C7: after a move from a non-empty source, the first Element's prev and
\* the last Element's next are the destination's sentinel, and every header
\* H of the destination's ring has H.next.prev == H and H.prev.next == H.
C7_MoveFixesBothBoundaries ==
    [][\A l, other \in Lists :
          (/\ l # other
           /\ Closed(Cur, other)
           /\ ~empty(Cur, other)
           /\ MoveCtor(l, other) \/ MoveAssign(l, other)) =>
              /\ BoundaryOwn(New, l)
              /\ \A h \in Ring(New, l) : LinkedBothWays(New, h)]_vars

\* The sentinel and the size of list l.
Sentinel(st, l) ==
    <<st.prev[end_node(l)], st.next[end_node(l)], st.m_size[l]>>

\* The ring of list l: its nodes in order, with their links and values.
RingOf(st, l) ==
    [i \in 1..Len(Walk(st, l)) |->
        LET a == Walk(st, l)[i]
        IN  <<a, st.prev[a], st.next[a], st.value[a]>>]

\* An insert, erase, push or pop on list l.
Mutates(l) ==
    \/ \E v \in Values, n \in Nodes, pos \in Positions(l) : Insert(l, pos, v, n)
    \/ \E pos \in ElementPositions(l) : Erase(l, pos)
    \/ \E v \in Values, n \in Nodes : PushFront(l, v, n) \/ PushBack(l, v, n)
    \/ PopFront(l)
    \/ PopBack(l)

\* C8: after a move into l from other, inserts, erases, pushes and pops on
\* the destination leave the source's sentinel links and size unchanged
\* (self-linked, size 0), and those on the source leave the destination's
\* ring and values unchanged.
C8_MovedFromIsIndependent ==
    [][\A l, other \in Lists :
          (l # other /\ moved = <<l, other>>) =>
              /\ Mutates(l) =>
                    /\ Sentinel(New, other) = Sentinel(Cur, other)
                    /\ SelfLinked(New, other)
                    /\ m_size'[other] = 0
              /\ Mutates(other) =>
                    /\ RingOf(New, l) = RingOf(Cur, l)
                    /\ Sentinel(New, l) = Sentinel(Cur, l)]_vars

\* C9: after a.swap(b) on two distinct lists, a holds the values b held and
\* b those a held, and in each list that is not empty the first Element's
\* prev and the last Element's next are that list's own sentinel.
C9_SwapFixesBothBoundaries ==
    [][\A l, other \in Lists :
          (/\ l # other
           /\ Closed(Cur, l)
           /\ Closed(Cur, other)
           /\ Swap(l, other)) =>
              /\ ~ub'
              /\ Contents(New, l) = Contents(Cur, other)
              /\ Contents(New, other) = Contents(Cur, l)
              /\ \A x \in {l, other} :
                    Walk(New, x) # <<>> => BoundaryOwn(New, x)]_vars

\* C10: when an operand of swap is empty before the call, each list that is
\* empty after it has size() == 0 and a sentinel whose prev and next point
\* to itself; this holds whichever operand is empty, also when both are.
C10_SwapKeepsEmptySelfLinked ==
    [][\A l, other \in Lists :
          (/\ empty(Cur, l) \/ empty(Cur, other)
           /\ Swap(l, other)) =>
              /\ ~ub'
              /\ empty(New, l) \/ empty(New, other)
              /\ \A x \in {l, other} : empty(New, x) => SelfLinked(New, x)]_vars

\* The memory of st is the memory before the step: every link, value and
\* size, and the same allocated nodes.
Restored(st) ==
    /\ ~st.ub
    /\ st.prev = prev
    /\ st.next = next
    /\ st.value = value
    /\ st.allocated = allocated
    /\ st.m_size = m_size

\* C11: swap is its own inverse: for any two lists, a second swap after a
\* swap (member or free function) restores both lists' value sequences,
\* sizes and links; neither swap allocates or releases a node or changes a
\* value, so every position still refers to the same Element and value.
C11_SwapTwiceRestores ==
    [][(last' = "swap") =>
       \A a, b \in Lists :
          (Swap(a, b) \/ SwapFree(a, b)) =>
              /\ ~ub'
              /\ allocated' = allocated
              /\ value' = value
              /\ Restored(swap(New, a, b))
              /\ Restored(swap_free(New, a, b))]_vars

\* What a == b must return: same size and the same values in order.
SameValues(st, a, b) ==
    /\ st.m_size[a] = st.m_size[b]
    /\ Contents(st, a) = Contents(st, b)

\* List l is as it was before the step: its sentinel, its size, its nodes
\* with their links and values.
ListUnchanged(l) ==
    /\ Sentinel(New, l) = Sentinel(Cur, l)
    /\ RingOf(New, l) = RingOf(Cur, l)

\* C12: a list copy-constructed from a source compares equal to it and
\* shares no header with it, the source being left as it was; after that,
\* inserts, erases, pushes and pops on the copy leave the source's values,
\* size and links unchanged, and those on the source leave the copy
\* unchanged.
C12_CopyIsIndependent ==
    [][\A l, other \in Lists :
          /\ (/\ last' = "copy constructor"
              /\ \E ok \in 0..MaxNodes : CopyCtor(l, other, ok)) =>
                 /\ ~ub'
                 /\ operator_eq(New, l, other).ret
                 /\ ~operator_eq(New, l, other).ub
                 /\ SameValues(New, l, other)
                 /\ Ring(New, l) \cap Ring(New, other) = {}
                 /\ ListUnchanged(other)
          /\ (l # other /\ copied = <<l, other>>) =>
                 /\ Mutates(l) => ListUnchanged(other)
                 /\ Mutates(other) => ListUnchanged(l)]_vars

\* C13: copy assignment a = b leaves a holding the values b held before it
\* and leaves b unchanged, whatever a held, for every pair of lists, a and
\* b being the same list included.
C13_CopyAssignTakesValues ==
    [][\A l, other \in Lists :
          (/\ last' = "copy assignment"
           /\ \E ok \in 0..MaxNodes : CopyAssign(l, other, ok)) =>
              /\ ~ub'
              /\ Closed(New, l)
              /\ Contents(New, l) = Contents(Cur, other)
              /\ m_size'[l] = m_size[other]
              /\ Contents(New, other) = Contents(Cur, other)
              /\ m_size'[other] = m_size[other]
              /\ l # other => ListUnchanged(other)]_vars

\* C14: a == b returns true exactly when the two lists have the same size
\* and the same values at every index of their forward traversals, a != b
\* returns the negation, and a size mismatch yields false without any
\* value being compared.
C14_EqualComparesValues ==
    [][(last' \in {"operator==", "operator!="}) =>
       \A a, b \in Lists :
          (Equal(a, b) \/ NotEqual(a, b)) =>
              /\ ~ub'
              /\ ~operator_eq(Cur, a, b).ub
              /\ operator_eq(Cur, a, b).ret <=> SameValues(Cur, a, b)
              /\ operator_ne(Cur, a, b).ret <=> ~operator_eq(Cur, a, b).ret
              /\ m_size[a] # m_size[b] =>
                    /\ ~operator_eq(Cur, a, b).ret
                    /\ operator_eq(Cur, a, b).compared = 0]_vars

\* C15: in every non-empty list built from a default-constructed list by
\* insert, erase, push and pop, --end() is the last Element of the forward
\* traversal, and stepping backward from --end() down to begin() inclusive
\* visits the values of the forward traversal in exactly reversed order.
C15_BackwardIsReversedForward ==
    (TheList \in alive /\ ~ub /\ ~empty(Cur, TheList)) =>
        LET w == Walk(Cur, TheList)
            b == Backward(Cur, TheList)
        IN  /\ w # <<>>
            /\ operator_dec(Cur, end_node(TheList)) = Last(w)
            /\ b = Reverse(w)
            /\ [i \in 1..Len(b) |-> value[b[i]]] = Reverse(Contents(Cur, TheList))

C15_Witness ==
    /\ last = "erase"
    /\ ~ub
    /\ Contents(Cur, TheList) = <<1, 2>>
    /\ [i \in 1..2 |-> value[Backward(Cur, TheList)[i]]] = <<2, 1>>

\* C16: for every list, iterating from rbegin() until rend() visits every
\* Element exactly once, from the last one to the first, and never
\* dereferences the sentinel; for an empty list rbegin() == rend().
C16_ReversePairVisitsBackward ==
    [][(last' = "reverse traversal") =>
       \A l \in Lists :
          ReverseTraversal(l) =>
              /\ ~ub'
              /\ ~reverse_traversal(Cur, l).ub
              /\ reverse_traversal(Cur, l).visited = Reverse(Walk(Cur, l))
              /\ empty(Cur, l) => rbegin(Cur, l) = rend(Cur, l)]_vars

\* The state List() leaves: size 0, empty, begin() == end(), the sentinel
\* linked to itself both ways.
DefaultState(st, l) ==
    /\ st.m_size[l] = 0
    /\ empty(st, l)
    /\ begin(st, l) = end(st, l)
    /\ st.prev[end_node(l)] = end_node(l)
    /\ st.next[end_node(l)] = end_node(l)

\* C17: a default-constructed list has size 0, is empty, has begin() == end()
\* and a sentinel linked to itself both ways, and no Element is allocated;
\* in every list built from it by insert, erase, push, pop and clear, end()
\* is the sentinel and begin() is the first Element, or the sentinel exactly
\* when the list is empty.
C17_DefaultStateAndBeginEnd ==
    (TheList \in alive /\ ~ub) =>
        /\ last = "List" =>
              /\ DefaultState(Cur, TheList)
              /\ allocated = {}
              /\ DefaultState(default_ctor(Cur, TheList), TheList)
              /\ default_ctor(Cur, TheList).allocated = {}
        /\ end(Cur, TheList) = end_node(TheList)
        /\ empty(Cur, TheList) <=> begin(Cur, TheList) = end_node(TheList)
        /\ ~empty(Cur, TheList) =>
              /\ begin(Cur, TheList) \in allocated
              /\ begin(Cur, TheList) = Walk(Cur, TheList)[1]
              /\ \A n \in allocated :
                    prev[n] = end_node(TheList) <=> n = begin(Cur, TheList)

C17_Witness ==
    /\ last = "insert"
    /\ ~ub
    /\ m_size[TheList] = 3
    /\ Contents(Cur, TheList) = <<2, 1, 1>>
    /\ prev[begin(Cur, TheList)] = end(Cur, TheList)

\* C18: erasing the only element of a list, by erase, pop_front or
\* pop_back, restores the default-constructed state: the sentinel's prev and
\* next are the sentinel itself, size() == 0 and begin() == end().
C18_ErasingOnlyElementRestoresDefault ==
    [][(last' \in {"erase", "pop_front", "pop_back"}) =>
       \A l \in Lists :
          (/\ m_size[l] = 1
           /\ \/ \E pos \in ElementPositions(l) : Erase(l, pos)
              \/ PopFront(l)
              \/ PopBack(l)) =>
              /\ ~ub'
              /\ ~asserted'
              /\ DefaultState(New, l)]_vars

\* s without its elements at the indexes i .. j-1
RemoveRange(s, i, j) ==
    [k \in 1..(Len(s) - (j - i)) |-> IF k < i THEN s[k] ELSE s[k + (j - i)]]

ErasedRangePost(l, first, lst) ==
    LET w == Walk(Cur, l)
        i == IndexOf(Cur, l, first)
        j == IndexOf(Cur, l, lst)
    IN  /\ ~ub'
        /\ ~asserted'
        /\ allocated' = allocated \ {w[k] : k \in i..(j - 1)}
        /\ Closed(New, l)
        /\ Walk(New, l) = RemoveRange(w, i, j)
        /\ Contents(New, l) = RemoveRange(Contents(Cur, l), i, j)
        /\ m_size'[l] = m_size[l] - (j - i)
        /\ erase_range(Cur, l, first, lst).ret = lst
        /\ first = lst => MemoryUnchanged

\* C19: for every list and every two positions first, last of it with last
\* reachable from first by forward steps, erase(first, last) removes exactly
\* the Elements of [first, last), keeps the other values in order,
\* decreases size() by the length of the range and returns last; when
\* first == last nothing changes.
C19_EraseRangeRemovesHalfOpenRange ==
    [][(last' = "erase range") =>
       \A l \in Lists : \A first, lst \in Positions(l) :
          (/\ lst \in ElementPositions(l) \/ Closed(Cur, l)
           /\ EraseRange(l, first, lst)) =>
              ErasedRangePost(l, first, lst)]_vars

\* The list l holds the sequence s after the step.
Yields(l, s) ==
    /\ ~ub'
    /\ ~asserted'
    /\ Closed(New, l)
    /\ Contents(New, l) = s
    /\ m_size'[l] = Len(s)

\* C20: push_front(v) has the effect of insert(begin(), v), push_back(v) of
\* insert(end(), v), pop_front() of erase(begin()) and pop_back() of
\* erase(--end()); on a list holding the sequence s they yield <<v>> \o s,
\* s \o <<v>>, s without its first value and s without its last value (s
\* not empty for the pops).
C20_PushPopAreInsertEraseAtEnds ==
    [][(last' \in {"push_front", "push_back", "pop_front", "pop_back"}) =>
       \A l \in Lists :
          LET s == Contents(Cur, l) IN
          /\ \A v \in Values, n \in FreeNodes :
                /\ PushFront(l, v, n) =>
                      /\ push_front(Cur, l, v, n)
                            = Void(insert(Cur, l, begin(Cur, l), v, n))
                      /\ Yields(l, <<v>> \o s)
                /\ PushBack(l, v, n) =>
                      /\ push_back(Cur, l, v, n)
                            = Void(insert(Cur, l, end(Cur, l), v, n))
                      /\ Yields(l, s \o <<v>>)
          /\ (s # <<>> /\ ~empty(Cur, l)) =>
                /\ PopFront(l) =>
                      /\ pop_front(Cur, l)
                            = Void(erase(Cur, l, begin(Cur, l)))
                      /\ Yields(l, Tail(s))
                /\ PopBack(l) =>
                      /\ pop_back(Cur, l)
                            = Void(erase(Cur, l,
                                         operator_dec(Cur, end(Cur, l))))
                      /\ Yields(l, SubSeq(s, 1, Len(s) - 1))]_vars

\* The sequences of values pushed after a clear().
PushSeqs == UNION {[1..k -> Values] : k \in 0..MaxPush}

\* List l looks the same in the states a and b: values, size and links.
SameList(a, b, l) ==
    /\ a.ub = b.ub
    /\ a.exc = b.exc
    /\ Contents(a, l) = Contents(b, l)
    /\ a.m_size[l] = b.m_size[l]
    /\ Sentinel(a, l) = Sentinel(b, l)
    /\ RingOf(a, l) = RingOf(b, l)

\* C21: clear() on any non-empty list releases every Element of that list,
\* leaves size() == 0 and begin() == end() with the sentinel linked to
\* itself, and after it any sequence of push_back calls produces the same
\* values, size and links as the same calls on a default-constructed list.
C21_ClearRestoresDefault ==
    [][(last' = "clear") =>
       \A l \in Lists :
          (Clear(l) /\ ~empty(Cur, l)) =>
              /\ ~ub'
              /\ allocated' = allocated \ Range(Walk(Cur, l))
              /\ Cardinality(allocated') = Cardinality(allocated) - m_size[l]
              /\ DefaultState(New, l)
              /\ \A vs \in PushSeqs :
                    /\ SameList(PushBacks(New, l, vs),
                                PushBacks(default_ctor(New, l), l, vs), l)
                    /\ ~PushBacks(New, l, vs).exc =>
                          /\ Contents(PushBacks(New, l, vs), l) = vs
                          /\ Closed(PushBacks(New, l, vs), l)]_vars

\* The node addresses list l links to: its head and tail and the prev and
\* next of every node of its forward walk.
Links(st, l) ==
    ({head(st, l), tail(st, l)}
       \cup {st.next[n] : n \in Range(Walk(st, l))}
       \cup {st.prev[n] : n \in Range(Walk(st, l))}) \cap Nodes

\* The calls whose code runs a delete-expression.
Releasing ==
    {"erase", "pop_front", "pop_back", "erase range", "clear", "~List",
     "move assignment", "copy assignment", "copy assignment throws",
     "copy constructor throws"}

\* C22: across any sequence of public operations on the lists followed by
\* the destruction of every list, each allocated Element is released exactly
\* once: no call releases a node that is not allocated (the model's
\* undefined behaviour in a releasing call), no node is released while a
\* live list still links to it, and none is left allocated once every list
\* is destroyed.
C22_ReleasedExactlyOnce ==
    [][/\ (last' \in Releasing) => ~ub'
       /\ ~ub' => \A l \in alive' :
                     Links(New, l) \cap (allocated \ allocated') = {}
       /\ (~ub' /\ alive' = {}) => allocated' = {}]_vars

\* Every position obtained before the step, other than those in gone, still
\* refers to the same Element: allocated, linked in its list, value kept.
PositionsKept(gone) ==
    \A o \in alive : \A p \in ElementPositions(o) \ gone :
        /\ p \in allocated'
        /\ p \in Range(Walk(New, o))
        /\ value'[p] = value[p]

\* C23: insert invalidates no existing position and erase(pos) invalidates
\* only the positions referring to the erased Element: after either call
\* every other position obtained earlier still refers to the same Element,
\* which is still allocated and linked in its list with its value unchanged.
C23_OtherPositionsStayValid ==
    [][(last' \in {"insert", "erase"}) =>
       \A l \in Lists :
          /\ \A pos \in Positions(l), v \in Values, n \in FreeNodes :
                Insert(l, pos, v, n) => (~ub' /\ PositionsKept({}))
          /\ \A pos \in ElementPositions(l) :
                Erase(l, pos) => (~ub' /\ PositionsKept({pos}))]_vars

\* erase(pos) on list l reaches neither `assert(false)`.
AssertFalseUnreached(st, l, pos) ==
    /\ st.prev[pos] = end_node(l) => pos = head(st, l)
    /\ st.next[pos] = end_node(l) => pos = tail(st, l)

\* C24: in every state reachable through the public operations, copy, move
\* and swap included, for every call erase(pos) on a list L with pos a live
\* Element of L: if pos's prev is L's sentinel then pos is L's head, and if
\* pos's next is L's sentinel then pos is L's tail, so neither assert(false)
\* of erase is reached.
C24_AssertFalseNeverReached ==
    ~ub => \A l \in alive : \A pos \in ElementPositions(l) :
              /\ AssertFalseUnreached(Cur, l, pos)
              /\ ~asserted => ~erase(Cur, l, pos).asserted

\* C25: in every state reachable through the public operations on the
\* lists, move construction, move assignment and swap followed by inserts
\* and erases included, the node walk of clear() and of ~List() terminates:
\* following next from the list's sentinel.next reaches that list's own
\* sentinel after exactly size() steps, and visits only Elements of that
\* list.
C25_WalkReachesOwnSentinel ==
    ~ub => \A l \in alive :
              /\ Closed(Cur, l)
              /\ Len(Walk(Cur, l)) = m_size[l]
              /\ ~DeleteWalk(Cur, l, head(Cur, l)).ub
              /\ \A o \in alive \ {l} :
                    Range(Walk(Cur, l)) \cap Range(Walk(Cur, o)) = {}

====
